---- MODULE Spec2Model ----
(***************************************************************************)
(* EpicBot: keeps the task checklist in an Epic issue's body in step with  *)
(* the issues it lists.  A line of text is a sequence of one-character     *)
(* strings, a body is the sequence of its lines (the result of             *)
(* split(/\r?\n/g), which join("\r\n") turns back into text).              *)
(***************************************************************************)
EXTENDS Integers, Sequences, FiniteSets, TLC

\* ------------------------------------------------------------------------
\* Bounds of the model
\* ------------------------------------------------------------------------

\* Number of lines of the body of Epic #3 in the initial Issue Store, at most.
MaxLines == 3

\* ------------------------------------------------------------------------
\* Text helpers (String.prototype.startsWith / endsWith, parseInt, toString)
\* ------------------------------------------------------------------------

DigitChars == <<"0", "1", "2", "3", "4", "5", "6", "7", "8", "9">>

IsDigit(c) == \E k \in 1..Len(DigitChars) : DigitChars[k] = c

DigitVal(c) == (CHOOSE k \in 1..Len(DigitChars) : DigitChars[k] = c) - 1

startsWith(s, p) == Len(p) <= Len(s) /\ SubSeq(s, 1, Len(p)) = p

endsWith(s, p) == Len(p) <= Len(s) /\ SubSeq(s, Len(s) - Len(p) + 1, Len(s)) = p

\* parseInt of a non-empty run of decimal digits
RECURSIVE parseInt(_)
parseInt(ds) ==
    IF ds = <<>> THEN 0
    ELSE parseInt(SubSeq(ds, 1, Len(ds) - 1)) * Len(DigitChars) + DigitVal(ds[Len(ds)])

\* decimal text of a non-negative number, as string concatenation produces it
RECURSIVE numberToString(_)
numberToString(n) ==
    IF n < Len(DigitChars) THEN <<DigitChars[n + 1]>>
    ELSE numberToString(n \div Len(DigitChars)) \o <<DigitChars[(n % Len(DigitChars)) + 1]>>

\* ------------------------------------------------------------------------
\* taskExpression: /(?<pre> *)- \[(?<closed>.)\] #(?<number>[0-9]+) *(?<title>.*)/
\* The expression is not anchored: exec finds the leftmost match.
\* ------------------------------------------------------------------------

\* "- [c] #d" starts at position p of the line
CoreAt(l, p) ==
    /\ p >= 1
    /\ p + 7 <= Len(l)
    /\ l[p] = "-" /\ l[p + 1] = " " /\ l[p + 2] = "["
    /\ l[p + 4] = "]" /\ l[p + 5] = " " /\ l[p + 6] = "#"
    /\ IsDigit(l[p + 7])

\* first position >= p at which the line stops satisfying the test, by kind
RECURSIVE SkipDigits(_, _)
SkipDigits(l, p) == IF p <= Len(l) /\ IsDigit(l[p]) THEN SkipDigits(l, p + 1) ELSE p

RECURSIVE SkipSpaces(_, _)
SkipSpaces(l, p) == IF p <= Len(l) /\ l[p] = " " THEN SkipSpaces(l, p + 1) ELSE p

\* start of the run of spaces that ends just before position p
RECURSIVE SpacesBefore(_, _)
SpacesBefore(l, p) == IF p > 1 /\ l[p - 1] = " " THEN SpacesBefore(l, p - 1) ELSE p

NoMatch == [matched |-> FALSE, pre |-> <<>>, closed |-> "", number |-> <<>>, title |-> <<>>]

taskExpression(l) ==
    IF \E p \in 1..Len(l) : CoreAt(l, p)
    THEN LET p == CHOOSE q \in 1..Len(l) :
                      CoreAt(l, q) /\ \A r \in 1..(q - 1) : ~CoreAt(l, r)
             s == SpacesBefore(l, p)
             e == SkipDigits(l, p + 7)
             t == SkipSpaces(l, e)
         IN  [matched |-> TRUE,
              pre     |-> SubSeq(l, s, p - 1),
              closed  |-> l[p + 3],
              number  |-> SubSeq(l, p + 7, e - 1),
              title   |-> SubSeq(l, t, Len(l))]
    ELSE NoMatch

\* mutant: the title follows the number without a space
RenderLineNoSpace(pre, status, number, title) ==
    pre \o <<"-", " ", "[", status, "]", " ", "#">> \o numberToString(number) \o title

\* pre + "- [" + status + "] #" + number + " " + title
RenderLine(pre, status, number, title) ==
    pre \o <<"-", " ", "[", status, "]", " ", "#">> \o numberToString(number) \o <<" ">> \o title

\* ------------------------------------------------------------------------
\* State
\* ------------------------------------------------------------------------

VARIABLES
    issues,               \* the Issue Store: number -> [title, state, body]
    epicPrefix,           \* core.getInput("epic-prefix")
    tasksMarker,          \* core.getInput("tasks-marker")
    closeCompletedEpics,  \* core.getInput("close-completed-epics"), a string
    pc,                   \* where the run is
    sourceIssue,          \* context.payload.issue of the run
    epicIssue,            \* the Epic being updated: [number, title, body]
    body,                 \* the array of body lines being rewritten
    i,                    \* loop index into body (1-based)
    inWorkload,           \* updateEpic's section flag
    taskIssue,            \* taskIssue.data of the line being reconciled
    result,               \* the pending { line, comment } / { body, comment }
    timeline,             \* issue snapshots carried by the timeline response
    event,                \* the loop variable of updateEpicFromTask: the entry at hand
    calls,                \* Issue Store calls of this run, in order
    failed,               \* core.setFailed was called in this run
    ret,                  \* value returned by updateEpic / updateEpicFromTask
    reconcile,            \* the latest call of updateTask: arguments and outcome
    prev                  \* Epic number of the run before, if it was a clean Epic run

vars == <<issues, epicPrefix, tasksMarker, closeCompletedEpics, pc, sourceIssue,
          epicIssue, body, i, inWorkload, taskIssue, result, timeline,
          event, calls, failed, ret, reconcile, prev>>

config == <<epicPrefix, tasksMarker, closeCompletedEpics>>

locals ==
    <<epicIssue, body, i, inWorkload, taskIssue, result, timeline, event, reconcile>>

\* ------------------------------------------------------------------------
\* Values
\* ------------------------------------------------------------------------

TaskNumbers == {1, 2}

EpicNumbers == {3, 4}

IssueNumbers == TaskNumbers \cup EpicNumbers

TitleA == <<"A">>

TitleB == <<"B">>

EpicTitle == <<"E", "p">>

MarkerHeading == <<"#", "W">>

OtherHeading == <<"#", "N">>

BlankLine == <<>>

NoComment == [text |-> "null", number |-> 0, state |-> ""]

NoIssue == [number |-> 0, title |-> <<>>, state |-> "", body |-> <<>>]

\* no timeline entry has been taken yet
NoEvent == [event |-> "", type |-> "", issue |-> 0]

NoResult == [line |-> <<>>, body |-> <<>>, comment |-> NoComment]

NoReconcile ==
    [taskLine |-> <<>>, taskIssue |-> NoIssue, taskIsTruth |-> FALSE, returned |-> "",
     nCalls |-> 0]

\* updateTask(epicNumber, taskLine, taskIssue, taskIsTruth) with what it returned:
\* "null", "false", "result" ({ line, comment }), or "pending" while it awaits a call
Reconciled(taskLine, task, taskIsTruth, returned, nCalls) ==
    [taskLine |-> taskLine, taskIssue |-> task, taskIsTruth |-> taskIsTruth,
     returned |-> returned, nCalls |-> nCalls]

IsHeading(l) == startsWith(l, <<"#">>)

\* if (closeCompletedEpics): a string is truthy unless it is empty
Truthy(s) == s # ""

\* ------------------------------------------------------------------------
\* updateTask: the comparison and the new line and comment it builds
\* ------------------------------------------------------------------------

epicIssueClosed(match) == match.closed = "x"

taskIssueClosed(task) == task.state = "closed"

\* mutant: the state is never taken to differ
updateStateNever(match, task) == FALSE

updateState(match, task) == epicIssueClosed(match) # taskIssueClosed(task)

\* mutant: the title is taken to differ whenever the line has one
updateTitleAnyTitle(match, task) == match.title # <<>>

updateTitle(match, task) == match.title # task.title

OpenClosed(b) == IF b THEN "closed" ELSE "open"

\* mutant: the status character is kept from the line
newLineFromTaskKeepsStatus(match, task) ==
    RenderLine(match.pre, IF epicIssueClosed(match) THEN "x" ELSE " ", task.number, task.title)

\* the line (Epic) is rebuilt from the task: taskIsTruth === true
newLineFromTask(match, task) ==
    RenderLine(match.pre, IF taskIssueClosed(task) THEN "x" ELSE " ", task.number, task.title)

commentFromTask(match, task) ==
    IF updateState(match, task) /\ updateTitle(match, task)
    THEN [text |-> "refreshed the title for task and marked it as",
          number |-> task.number, state |-> OpenClosed(taskIssueClosed(task))]
    ELSE IF updateState(match, task)
    THEN [text |-> "marked task as",
          number |-> task.number, state |-> OpenClosed(taskIssueClosed(task))]
    ELSE IF updateTitle(match, task)
    THEN [text |-> "refreshed the title for task", number |-> task.number, state |-> ""]
    ELSE NoComment

\* mutant: the title is kept from the line
newLineFromEpicKeepsTitle(match, task) ==
    RenderLine(match.pre, IF epicIssueClosed(match) THEN "x" ELSE " ", task.number, match.title)

\* the task is updated from the line (Epic): taskIsTruth === false
newLineFromEpic(match, task) ==
    RenderLine(match.pre, IF epicIssueClosed(match) THEN "x" ELSE " ", task.number, task.title)

commentFromEpic(match, task) ==
    IF updateState(match, task) /\ updateTitle(match, task)
    THEN [text |-> "closed/opened task following changes in the Epic, and refreshed its title",
          number |-> task.number, state |-> OpenClosed(epicIssueClosed(match))]
    ELSE IF updateState(match, task)
    THEN NoComment      \* the string is built but never assigned to comment
    ELSE IF updateTitle(match, task)
    THEN [text |-> "refreshed the title for task", number |-> task.number, state |-> ""]
    ELSE NoComment

\* updateTask returns null: not a task line, another task's line, or up to date
updateTaskIsNull(taskLine, task) ==
    LET match == taskExpression(taskLine)
    IN  \/ ~match.matched
        \/ parseInt(match.number) # task.number
        \/ (~updateTitle(match, task) /\ ~updateState(match, task))

\* what updateTask returns when it returns { line, comment }
updateTaskResult(taskLine, task, taskIsTruth) ==
    LET match == taskExpression(taskLine)
    IN  IF taskIsTruth
        THEN [line |-> newLineFromTask(match, task), body |-> <<>>,
              comment |-> commentFromTask(match, task)]
        ELSE [line |-> newLineFromEpic(match, task), body |-> <<>>,
              comment |-> commentFromEpic(match, task)]

\* ------------------------------------------------------------------------
\* updateTaskInEpic: rewrite the task's line in an Epic body (no Issue Store call)
\* ------------------------------------------------------------------------

NullResult ==
    [isNull |-> TRUE, called |-> FALSE, taskLine |-> <<>>, line |-> <<>>, body |-> <<>>,
     comment |-> NoComment]

\* the loop from index k on, with the section flag inW
RECURSIVE updateTaskInEpicFrom(_, _, _, _)
updateTaskInEpicFrom(lines, task, k, inW) ==
    IF k > Len(lines) THEN NullResult
    ELSE IF IsHeading(lines[k]) /\ endsWith(lines[k], tasksMarker)
    THEN updateTaskInEpicFrom(lines, task, k + 1, TRUE)
    ELSE IF IsHeading(lines[k]) /\ inW THEN NullResult
    ELSE IF ~inW THEN updateTaskInEpicFrom(lines, task, k + 1, inW)
    ELSE LET match == taskExpression(lines[k])
         IN  IF ~match.matched
             THEN updateTaskInEpicFrom(lines, task, k + 1, inW)
             ELSE IF parseInt(match.number) # task.number
             THEN updateTaskInEpicFrom(lines, task, k + 1, inW)
             ELSE IF updateTaskIsNull(lines[k], task)
             THEN [NullResult EXCEPT !.called = TRUE, !.taskLine = lines[k]]
             ELSE LET r == updateTaskResult(lines[k], task, TRUE)
                  IN  [isNull |-> FALSE, called |-> TRUE, taskLine |-> lines[k],
                       line |-> r.line, body |-> [lines EXCEPT ![k] = r.line],
                       comment |-> r.comment]

\* mutant: the scan starts inside the section
updateTaskInEpicWholeBody(epicBody, task) == updateTaskInEpicFrom(epicBody, task, 1, TRUE)

updateTaskInEpic(epicBody, task) == updateTaskInEpicFrom(epicBody, task, 1, FALSE)

\* ------------------------------------------------------------------------
\* closeEpicIfComplete: the scan that decides whether the Epic is closed
\* ------------------------------------------------------------------------

\* the loop from index k on; TRUE when the function goes on to close the Epic
RECURSIVE epicCompleteFrom(_, _, _, _)
epicCompleteFrom(lines, k, inW, nTasks) ==
    IF k > Len(lines) THEN nTasks # 0
    ELSE IF IsHeading(lines[k]) /\ endsWith(lines[k], tasksMarker)
    THEN epicCompleteFrom(lines, k + 1, TRUE, nTasks)
    ELSE IF IsHeading(lines[k]) /\ inW THEN nTasks # 0
    ELSE IF ~inW THEN epicCompleteFrom(lines, k + 1, inW, nTasks)
    ELSE LET match == taskExpression(lines[k])
         IN  IF ~match.matched THEN epicCompleteFrom(lines, k + 1, inW, nTasks)
             ELSE IF match.closed # "x" THEN FALSE
             ELSE epicCompleteFrom(lines, k + 1, inW, nTasks + 1)

\* mutant: the count of task lines starts at one, so an empty section is complete
epicCompleteCountsFromOne(epicBody) == epicCompleteFrom(epicBody, 1, FALSE, 1)

epicComplete(epicBody) == epicCompleteFrom(epicBody, 1, FALSE, 0)

\* ------------------------------------------------------------------------
\* Issue Store calls (octokit.issues.*), as the run's log records them
\* ------------------------------------------------------------------------

Call(op, number, fields, state, newBody, comment, ok, site) ==
    [op |-> op, number |-> number, fields |-> fields, state |-> state,
     body |-> newBody, comment |-> comment, ok |-> ok, site |-> site]

getCall(number, ok) ==
    Call("get", number, {}, "", <<>>, NoComment, ok, "updateEpic")

listEventsForTimelineCall(number, ok) ==
    Call("listEventsForTimeline", number, {}, "", <<>>, NoComment, ok, "updateEpicFromTask")

updateStateCall(number, state, ok, site) ==
    Call("update", number, {"state"}, state, <<>>, NoComment, ok, site)

updateBodyCall(number, newBody, ok, site) ==
    Call("update", number, {"body"}, "", newBody, NoComment, ok, site)

createCommentCall(number, comment, ok, site) ==
    Call("createComment", number, {}, "", <<>>, comment, ok, site)

Snapshot(n) ==
    [number |-> n, title |-> issues[n].title, state |-> issues[n].state,
     body |-> issues[n].body]

\* ------------------------------------------------------------------------
\* Initial Issue Store
\* ------------------------------------------------------------------------

RECURSIVE SeqsUpTo(_, _)
SeqsUpTo(S, n) ==
    IF n = 0 THEN {<<>>}
    ELSE LET shorter == SeqsUpTo(S, n - 1)
         IN  shorter \cup {Append(q, x) : q \in shorter, x \in S}

\* lines an Epic body is made of when a run starts
BodyLines ==
    { MarkerHeading, OtherHeading, BlankLine,
      RenderLine(<<>>, " ", 1, TitleB),
      RenderLine(<<>>, "x", 2, TitleB) }

\* "".split(/\r?\n/g) is [""]: a body has at least one line
Bodies == SeqsUpTo(BodyLines, MaxLines) \ {<<>>}

\* a workload section listing task #1 with a stale title
OneTaskBody == <<MarkerHeading, RenderLine(<<>>, " ", 1, TitleB)>>

InitialStores ==
    { [n \in IssueNumbers |->
         IF n \in EpicNumbers
         THEN [title |-> EpicTitle, state |-> "open",
               body |-> IF n = 3 THEN eb ELSE OneTaskBody]
         ELSE IF n = 1
         THEN [title |-> TitleA, state |-> s1, body |-> <<BlankLine>>]
         ELSE [title |-> TitleB, state |-> s2, body |-> OneTaskBody]]
      : eb \in Bodies, s1 \in {"open", "closed"}, s2 \in {"open", "closed"} }

\* task lines for task #1 as a user may have typed them: text before the item, an
\* indent, any status character, leading zeros, any spacing before the title
TypedLines ==
    { junk \o pre \o <<"-", " ", "[", c, "]", " ", "#">> \o num \o sep \o title :
        junk \in {<<>>, <<"a">>}, pre \in {<<>>, <<" ", " ">>}, c \in {"x", " ", "X"},
        num \in {<<"1">>, <<"0", "1">>}, sep \in {<<>>, <<" ">>, <<" ", " ">>},
        title \in {TitleA, TitleB} }

\* stores in which the workload section of Epic #3 is one typed line
TypedStores ==
    { [n \in IssueNumbers |->
         IF n \in EpicNumbers
         THEN [title |-> EpicTitle, state |-> "open",
               body |-> IF n = 3 THEN <<MarkerHeading, l>> ELSE OneTaskBody]
         ELSE IF n = 1
         THEN [title |-> TitleA, state |-> s1, body |-> <<BlankLine>>]
         ELSE [title |-> TitleB, state |-> "open", body |-> OneTaskBody]]
      : l \in TypedLines, s1 \in {"open", "closed"} }

\* no run has started
Idle ==
    /\ epicPrefix = <<>>
    /\ tasksMarker = <<>>
    /\ closeCompletedEpics = ""
    /\ pc = "idle"
    /\ sourceIssue = NoIssue
    /\ epicIssue = NoIssue
    /\ body = <<>>
    /\ i = 1
    /\ inWorkload = FALSE
    /\ taskIssue = NoIssue
    /\ result = NoResult
    /\ timeline = <<>>
    /\ event = NoEvent
    /\ calls = <<>>
    /\ failed = FALSE
    /\ ret = "none"
    /\ reconcile = NoReconcile
    /\ prev = 0

Init == issues \in InitialStores /\ Idle

InitTyped == issues \in TypedStores /\ Idle

\* ------------------------------------------------------------------------
\* run
\* ------------------------------------------------------------------------

\* the Issue Store holds an issue with this number (otherwise a fetch fails: 404)
Exists(n) == n \in DOMAIN issues

Log(call) == calls' = Append(calls, call)

\* the run that has just ended was an Epic run that returned true without failure
CleanEpicRun ==
    /\ pc = "done"
    /\ ret = "true"
    /\ ~failed
    /\ sourceIssue.number \in EpicNumbers
    /\ startsWith(sourceIssue.title, epicPrefix)

EpicDriven == startsWith(sourceIssue.title, epicPrefix)

\* mutant: only the Epic prefix is checked
configInvalidPrefixOnly(prefix, marker) == prefix = <<>>

\* the two checks of the configuration: either input is the empty string
configInvalid(prefix, marker) == prefix = <<>> \/ marker = <<>>

\* the action is triggered for issue n (0: the payload carries no issue)
run(n, prefix, marker, closeInput) ==
    /\ pc \in {"idle", "done"}
    /\ n = 0 \/ Exists(n)
    /\ epicPrefix' = prefix
    /\ tasksMarker' = marker
    /\ closeCompletedEpics' = closeInput
    /\ prev' = IF CleanEpicRun THEN sourceIssue.number ELSE 0
    /\ calls' = <<>>
    /\ ret' = "none"
    /\ sourceIssue' = IF n = 0 THEN NoIssue ELSE Snapshot(n)
    /\ taskIssue' = NoIssue
    /\ result' = NoResult
    /\ reconcile' = NoReconcile
    /\ timeline' = <<>>
    /\ event' = NoEvent
    /\ i' = 1
    /\ inWorkload' = FALSE
    /\ UNCHANGED issues
    /\ IF n = 0
       THEN /\ pc' = "done"
            /\ failed' = FALSE
            /\ epicIssue' = NoIssue
            /\ body' = <<>>
       ELSE IF configInvalid(prefix, marker)
       THEN /\ pc' = "done"
            /\ failed' = TRUE
            /\ epicIssue' = NoIssue
            /\ body' = <<>>
       ELSE IF startsWith(issues[n].title, prefix)
       THEN \* updateEpic(sourceIssue)
            /\ pc' = "scan"
            /\ failed' = FALSE
            /\ epicIssue' = Snapshot(n)
            /\ body' = issues[n].body
       ELSE \* updateEpicFromTask(sourceIssue)
            /\ pc' = "listEventsForTimeline"
            /\ failed' = FALSE
            /\ epicIssue' = NoIssue
            /\ body' = <<>>

\* the configuration inputs of a run: <<epic-prefix, tasks-marker, close-completed-epics>>
Configs ==
    {<<<<"E">>, <<"W">>, c>> : c \in {"true", "false", ""}}
    \cup {<<<<>>, <<"W">>, "true">>, <<<<"E">>, <<>>, "true">>}

\* the action is triggered by an event of the repository
Run ==
    /\ pc = "idle"
    /\ \E n \in IssueNumbers \cup {0}, c \in Configs : run(n, c[1], c[2], c[3])

\* the Epic's own update triggers the action once more for the same Epic
Rerun ==
    /\ CleanEpicRun
    /\ run(sourceIssue.number, epicPrefix, tasksMarker, closeCompletedEpics)

\* ------------------------------------------------------------------------
\* closeEpicIfComplete
\* ------------------------------------------------------------------------

CompletionComment == [text |-> "closed this Epic as all tasks are complete", number |-> 0, state |-> ""]

\* closeEpicIfComplete has returned to its caller
AfterClose ==
    IF EpicDriven
    THEN pc' = "done" /\ ret' = "true"
    ELSE pc' = "event" /\ UNCHANGED ret

\* if (closeCompletedEpics) await closeEpicIfComplete(number, newBody)
closeEpicIfComplete(newBody) ==
    IF Truthy(closeCompletedEpics) /\ epicComplete(newBody)
    THEN pc' = "closeComment" /\ UNCHANGED ret
    ELSE AfterClose

\* mutant: the Epic is closed whether or not the completion comment was posted
CloseCommentThenCloseAnyway ==
    /\ pc = "closeComment"
    /\ \E ok \in BOOLEAN :
        /\ Log(createCommentCall(epicIssue.number, CompletionComment, ok, "closeEpicIfComplete"))
        /\ pc' = "closeUpdate"
        /\ failed' = (failed \/ ~ok)
        /\ UNCHANGED ret
    /\ UNCHANGED <<issues, config, sourceIssue, locals, prev>>

\* the completion comment; the close follows only if it was posted
CloseComment ==
    /\ pc = "closeComment"
    /\ \E ok \in BOOLEAN :
        /\ Log(createCommentCall(epicIssue.number, CompletionComment, ok, "closeEpicIfComplete"))
        /\ IF ok
           THEN pc' = "closeUpdate" /\ UNCHANGED <<ret, failed>>
           ELSE failed' = TRUE /\ AfterClose
    /\ UNCHANGED <<issues, config, sourceIssue, locals, prev>>

CloseUpdate ==
    /\ pc = "closeUpdate"
    /\ \E ok \in BOOLEAN :
        /\ Log(updateStateCall(epicIssue.number, "closed", ok, "closeEpicIfComplete"))
        /\ IF ok
           THEN /\ issues' = [issues EXCEPT ![epicIssue.number].state = "closed"]
                /\ UNCHANGED failed
           ELSE failed' = TRUE /\ UNCHANGED issues
        /\ AfterClose
    /\ UNCHANGED <<config, sourceIssue, locals, prev>>

\* ------------------------------------------------------------------------
\* updateEpic
\* ------------------------------------------------------------------------

\* continue: on to the next body line
Continue == pc' = "scan" /\ i' = i + 1

\* updateTask returned { line, comment }: store the line, comment on the Epic?
\* mutant: the updated line is stored in the first line of the body
StoreLineFirst(r) ==
    /\ body' = [body EXCEPT ![1] = r.line]
    /\ result' = r
    /\ IF r.comment # NoComment
       THEN pc' = "commentEpic" /\ UNCHANGED i
       ELSE Continue

\* body[i] = result.line, then on to the comment on the Epic
StoreLine(r) ==
    /\ body' = [body EXCEPT ![i] = r.line]
    /\ result' = r
    /\ IF r.comment # NoComment
       THEN pc' = "commentEpic" /\ UNCHANGED i
       ELSE Continue

\* mutant: inside the section a heading that ends with the marker ends the scan too
ScanLineEndsAtAnyHeading ==
    /\ pc = "scan"
    /\ IF i > Len(body)
       THEN pc' = "commit" /\ UNCHANGED <<i, inWorkload>>
       ELSE IF IsHeading(body[i]) /\ inWorkload
       THEN pc' = "commit" /\ UNCHANGED <<i, inWorkload>>
       ELSE IF IsHeading(body[i]) /\ endsWith(body[i], tasksMarker)
       THEN inWorkload' = TRUE /\ Continue
       ELSE IF ~inWorkload \/ ~taskExpression(body[i]).matched
       THEN Continue /\ UNCHANGED inWorkload
       ELSE pc' = "get" /\ UNCHANGED <<i, inWorkload>>
    /\ UNCHANGED <<issues, config, sourceIssue, epicIssue, body, taskIssue, result,
                   timeline, event, calls, failed, ret, reconcile, prev>>

\* one iteration of the loop over the body lines, up to the task fetch
ScanLine ==
    /\ pc = "scan"
    /\ IF i > Len(body)
       THEN pc' = "commit" /\ UNCHANGED <<i, inWorkload>>
       ELSE IF IsHeading(body[i]) /\ endsWith(body[i], tasksMarker)
       THEN inWorkload' = TRUE /\ Continue
       ELSE IF IsHeading(body[i]) /\ inWorkload
       THEN pc' = "commit" /\ UNCHANGED <<i, inWorkload>>
       ELSE IF ~inWorkload \/ ~taskExpression(body[i]).matched
       THEN Continue /\ UNCHANGED inWorkload
       ELSE pc' = "get" /\ UNCHANGED <<i, inWorkload>>
    /\ UNCHANGED <<issues, config, sourceIssue, epicIssue, body, taskIssue, result,
                   timeline, event, calls, failed, ret, reconcile, prev>>

\* mutant: a failed fetch is reported and the line is skipped
getFailedSkipsLine ==
    /\ failed' = TRUE
    /\ pc' = "scan"
    /\ i' = i + 1
    /\ UNCHANGED <<ret, body, taskIssue, result, reconcile>>

\* the task fetch threw (or found nothing): setFailed and return false
getFailed ==
    /\ failed' = TRUE
    /\ ret' = "false"
    /\ pc' = "done"
    /\ UNCHANGED <<i, body, taskIssue, result, reconcile>>

\* octokit.issues.get for the line's task, then updateTask up to its first call
GetTask ==
    /\ pc = "get"
    /\ LET n == parseInt(taskExpression(body[i]).number)
       IN  \E ok \in BOOLEAN :
            /\ ok => Exists(n)
            /\ Log(getCall(n, ok))
            /\ IF ~ok
               THEN getFailed
               ELSE LET task == [number |-> n, title |-> issues[n].title,
                                 state |-> issues[n].state, body |-> issues[n].body]
                        match == taskExpression(body[i])
                    IN  /\ taskIssue' = task
                        /\ UNCHANGED <<failed, ret>>
                        /\ IF updateTaskIsNull(body[i], task)
                           THEN /\ reconcile' = Reconciled(body[i], task, FALSE, "null", Len(calls) + 1)
                                /\ Continue
                                /\ UNCHANGED <<body, result>>
                           ELSE IF updateState(match, task)
                           THEN /\ reconcile' = Reconciled(body[i], task, FALSE, "pending", Len(calls) + 1)
                                /\ pc' = "updateTaskState"
                                /\ UNCHANGED <<i, body, result>>
                           ELSE /\ reconcile' = Reconciled(body[i], task, FALSE, "result", Len(calls) + 1)
                                /\ StoreLine(updateTaskResult(body[i], task, FALSE))
    /\ UNCHANGED <<issues, config, sourceIssue, epicIssue, inWorkload, timeline,
                   event, prev>>

\* mutant: the title of the line is sent along with the state
taskUpdateCallWithTitle(match, task, ok) ==
    [updateStateCall(task.number, OpenClosed(epicIssueClosed(match)), ok, "updateTask")
        EXCEPT !.fields = {"state", "title"}]

\* the fields updateTask sends to octokit.issues.update for the task
taskUpdateCall(match, task, ok) ==
    updateStateCall(task.number, OpenClosed(epicIssueClosed(match)), ok, "updateTask")

\* updateTask, taskIsTruth false: set the task's state from the line
UpdateTaskState ==
    /\ pc = "updateTaskState"
    /\ LET match == taskExpression(body[i])
       IN  \E ok \in BOOLEAN :
            /\ Log(taskUpdateCall(match, taskIssue, ok))
            /\ IF ok
               THEN /\ issues' = [issues EXCEPT ![taskIssue.number].state =
                                      OpenClosed(epicIssueClosed(match))]
                    /\ pc' = "commentTask"
                    /\ UNCHANGED <<i, failed, reconcile>>
               ELSE \* updateTask returns false, which updateEpic reads as nothing to update
                    /\ failed' = TRUE
                    /\ reconcile' = [reconcile EXCEPT !.returned = "false"]
                    /\ Continue
                    /\ UNCHANGED issues
    /\ UNCHANGED <<config, sourceIssue, epicIssue, body, inWorkload, taskIssue, result,
                   timeline, event, ret, prev>>

TaskComment(match) ==
    [text |-> "closed/re-opened this issue following changes in Epic",
     number |-> epicIssue.number, state |-> OpenClosed(epicIssueClosed(match))]

\* updateTask, taskIsTruth false: comment on the task, then build the result
CommentTask ==
    /\ pc = "commentTask"
    /\ LET match == taskExpression(body[i])
       IN  \E ok \in BOOLEAN :
            /\ Log(createCommentCall(taskIssue.number, TaskComment(match), ok, "updateTask"))
            /\ IF ok
               THEN /\ StoreLine(updateTaskResult(body[i], taskIssue, FALSE))
                    /\ reconcile' = [reconcile EXCEPT !.returned = "result"]
                    /\ UNCHANGED failed
               ELSE /\ failed' = TRUE
                    /\ reconcile' = [reconcile EXCEPT !.returned = "false"]
                    /\ Continue
                    /\ UNCHANGED <<body, result>>
    /\ UNCHANGED <<issues, config, sourceIssue, epicIssue, inWorkload, taskIssue,
                   timeline, event, ret, prev>>

\* mutant: after a failed comment on the Epic the pass goes on to write the body
CommentEpicFailedCommits ==
    /\ pc = "commentEpic"
    /\ \E ok \in BOOLEAN :
        /\ Log(createCommentCall(epicIssue.number, result.comment, ok, "updateEpic"))
        /\ IF ok
           THEN Continue /\ UNCHANGED <<failed, ret>>
           ELSE failed' = TRUE /\ pc' = "commit" /\ UNCHANGED <<i, ret>>
    /\ UNCHANGED <<issues, config, sourceIssue, epicIssue, body, inWorkload, taskIssue,
                   result, timeline, event, reconcile, prev>>

\* comment on the Epic about the rewritten line
CommentEpic ==
    /\ pc = "commentEpic"
    /\ \E ok \in BOOLEAN :
        /\ Log(createCommentCall(epicIssue.number, result.comment, ok, "updateEpic"))
        /\ IF ok
           THEN Continue /\ UNCHANGED <<failed, ret>>
           ELSE failed' = TRUE /\ ret' = "false" /\ pc' = "done" /\ UNCHANGED i
    /\ UNCHANGED <<issues, config, sourceIssue, epicIssue, body, inWorkload, taskIssue,
                   result, timeline, event, reconcile, prev>>

\* commit the updated Epic body text, then the completion check
CommitEpicBody ==
    /\ pc = "commit"
    /\ \E ok \in BOOLEAN :
        /\ Log(updateBodyCall(epicIssue.number, body, ok, "updateEpic"))
        /\ IF ok
           THEN /\ issues' = [issues EXCEPT ![epicIssue.number].body = body]
                /\ closeEpicIfComplete(body)
                /\ UNCHANGED failed
           ELSE /\ failed' = TRUE
                /\ ret' = "false"
                /\ pc' = "done"
                /\ UNCHANGED issues
    /\ UNCHANGED <<config, sourceIssue, locals, prev>>

\* ------------------------------------------------------------------------
\* updateEpicFromTask
\* ------------------------------------------------------------------------

\* entries a timeline can hold: [event, source.type, number of source.issue];
\* an entry that is not a cross-reference has no source (0); a cross-reference
\* whose source is not an issue carries Epic #3 in the place of source.issue
TimelineEvents ==
    {[event |-> "cross-referenced", type |-> "issue", issue |-> n] : n \in IssueNumbers}
    \cup {[event |-> "cross-referenced", type |-> "commit", issue |-> 3],
          [event |-> "labeled", type |-> "", issue |-> 0]}

\* mutant: the title of the referencing issue is not looked at
IsEpicReferenceAnyTitle(ev) ==
    /\ ev.event = "cross-referenced"
    /\ ev.type = "issue"

\* mutant: the kind of the source is not looked at
IsEpicReferenceAnyKind(ev) ==
    /\ ev.event = "cross-referenced"
    /\ startsWith(timeline[ev.issue].title, epicPrefix)

\* the entry names an Epic: cross-referenced, from an issue, title with the prefix
IsEpicReference(ev) ==
    /\ ev.event = "cross-referenced"
    /\ ev.type = "issue"
    /\ startsWith(timeline[ev.issue].title, epicPrefix)

ListEventsForTimeline ==
    /\ pc = "listEventsForTimeline"
    /\ \E ok \in BOOLEAN :
        /\ Log(listEventsForTimelineCall(sourceIssue.number, ok))
        /\ IF ok
           THEN /\ timeline' = [n \in IssueNumbers |-> Snapshot(n)]
                /\ pc' = "event"
                /\ UNCHANGED <<failed, ret>>
           ELSE /\ failed' = TRUE
                /\ ret' = "false"
                /\ pc' = "done"
                /\ UNCHANGED timeline
    /\ UNCHANGED <<issues, config, sourceIssue, epicIssue, body, i, inWorkload,
                   taskIssue, result, event, reconcile, prev>>

\* the loop has run through timeline.data
EndOfTimeline ==
    /\ pc = "event"
    /\ pc' = "done"
    /\ ret' = "true"
    /\ UNCHANGED <<issues, config, sourceIssue, locals, calls, failed, prev>>

\* one iteration of the loop over timeline.data, up to the commit of the Epic;
\* a timeline holds one cross-reference for each issue that mentions the task, so
\* an issue this pass has already written to is not met again; the timeline has
\* any length: an entry that is skipped leaves its trace in event only
NextEvent ==
    /\ pc = "event"
    /\ \E ev \in TimelineEvents :
        /\ ev.issue # 0 => Exists(ev.issue)
        /\ \A k \in 1..Len(calls) :
            calls[k].site = "updateEpicFromTask" => calls[k].number # ev.issue
        /\ event' = ev
        /\ IF ~IsEpicReference(ev)
           THEN UNCHANGED <<pc, ret, epicIssue, result, reconcile>>
           ELSE LET r == updateTaskInEpic(timeline[ev.issue].body, sourceIssue)
                IN  /\ epicIssue' = timeline[ev.issue]
                    /\ reconcile' =
                         IF r.called
                         THEN Reconciled(r.taskLine, sourceIssue, TRUE,
                                         IF r.isNull THEN "null" ELSE "result",
                                         Len(calls))
                         ELSE reconcile
                    /\ IF r.isNull
                       THEN pc' = "done" /\ ret' = "false" /\ UNCHANGED result
                       ELSE /\ pc' = "commitFromTask"
                            /\ result' = [line |-> r.line, body |-> r.body,
                                          comment |-> r.comment]
                            /\ UNCHANGED ret
    /\ UNCHANGED <<issues, config, sourceIssue, body, i, inWorkload, taskIssue,
                   timeline, calls, failed, prev>>

\* commit the updated Epic
CommitFromTask ==
    /\ pc = "commitFromTask"
    /\ \E ok \in BOOLEAN :
        /\ Log(updateBodyCall(epicIssue.number, result.body, ok, "updateEpicFromTask"))
        /\ IF ok
           THEN /\ issues' = [issues EXCEPT ![epicIssue.number].body = result.body]
                /\ UNCHANGED failed
                /\ IF result.comment # NoComment
                   THEN pc' = "commentFromTask" /\ UNCHANGED ret
                   ELSE closeEpicIfComplete(result.body)
           ELSE /\ failed' = TRUE
                /\ ret' = "false"
                /\ pc' = "done"
                /\ UNCHANGED issues
    /\ UNCHANGED <<config, sourceIssue, locals, prev>>

\* comment on the Epic, then the completion check
CommentFromTask ==
    /\ pc = "commentFromTask"
    /\ \E ok \in BOOLEAN :
        /\ Log(createCommentCall(epicIssue.number, result.comment, ok, "updateEpicFromTask"))
        /\ IF ok
           THEN closeEpicIfComplete(result.body) /\ UNCHANGED failed
           ELSE failed' = TRUE /\ ret' = "false" /\ pc' = "done"
    /\ UNCHANGED <<issues, config, sourceIssue, locals, prev>>

\* ------------------------------------------------------------------------
\* Specification
\* ------------------------------------------------------------------------

Next ==
    \/ Run
    \/ Rerun
    \/ ScanLine
    \/ GetTask
    \/ UpdateTaskState
    \/ CommentTask
    \/ CommentEpic
    \/ CommitEpicBody
    \/ CloseComment
    \/ CloseUpdate
    \/ ListEventsForTimeline
    \/ EndOfTimeline
    \/ NextEvent
    \/ CommitFromTask
    \/ CommentFromTask

Spec == Init /\ [][Next]_vars

\* the same runs, started on stores whose task lines are typed by hand
SpecTyped == InitTyped /\ [][Next]_vars

\* ------------------------------------------------------------------------
\* Properties
\* ------------------------------------------------------------------------

\* calls that change the Issue Store
IsMutation(call) == call.op \in {"update", "createComment"}

Last(q) == q[Len(q)]

\* the line carries the task's number, state and title
InSync(taskLine, task) ==
    LET match == taskExpression(taskLine)
    IN  /\ match.matched
        /\ parseInt(match.number) = task.number
        /\ (match.closed = "x") <=> (task.state = "closed")
        /\ match.title = task.title

\* C1: a second run of updateEpic on the same Epic, right after a clean first run,
\* issues no update and no comment at all.
C1_SecondRunIssuesNoMutation ==
    prev # 0 => \A k \in 1..Len(calls) : ~IsMutation(calls[k])

\* C2: when the line's closed flag and title equal the task's, updateTask returns
\* null in either direction and issues no Issue Store call.
C2_UpToDateReturnsNull ==
    (reconcile.returned # "" /\ InSync(reconcile.taskLine, reconcile.taskIssue))
        => /\ reconcile.returned = "null"
           /\ \A k \in (reconcile.nCalls + 1)..Len(calls) : calls[k].site # "updateTask"

\* C2 witness: an up-to-date hand-typed line was reconciled in the Epic-driven
\* direction and updateTask returned null.
C2_Witness ==
    /\ reconcile.returned = "null"
    /\ ~reconcile.taskIsTruth
    /\ InSync(reconcile.taskLine, reconcile.taskIssue)
    /\ reconcile.taskLine = <<" ", " ", "-", " ", "[", "x", "]", " ", "#", "0", "1", "A">>

\* the line updateTask builds in the task-driven direction, written out
ExpectedLineFromTask(taskLine, task) ==
    taskExpression(taskLine).pre
        \o <<"-", " ", "[", IF task.state = "closed" THEN "x" ELSE " ", "]", " ", "#">>
        \o numberToString(task.number) \o <<" ">> \o task.title

StateDiffers(taskLine, task) ==
    (taskExpression(taskLine).closed = "x") # (task.state = "closed")

TitleDiffers(taskLine, task) == taskExpression(taskLine).title # task.title

\* C3: in the task-driven direction, whenever state or title differs the returned
\* line is indent + "- [" + (x if the task is closed, else a space) + "] #" + number
\* + " " + the task's title, and the comment is the combined one when both differ,
\* the status one when only the state differs, the title one when only the title
\* differs.
C3_TaskDirectionLineAndComment ==
    LET l == reconcile.taskLine
        t == reconcile.taskIssue
    IN  (reconcile.taskIsTruth /\ reconcile.returned # ""
            /\ (StateDiffers(l, t) \/ TitleDiffers(l, t)))
        => /\ reconcile.returned = "result"
           /\ result.line = ExpectedLineFromTask(l, t)
           /\ result.comment # NoComment
           /\ result.comment.number = t.number
           /\ (StateDiffers(l, t) /\ TitleDiffers(l, t))
                => /\ result.comment.text = "refreshed the title for task and marked it as"
                   /\ result.comment.state = t.state
           /\ (StateDiffers(l, t) /\ ~TitleDiffers(l, t))
                => /\ result.comment.text = "marked task as"
                   /\ result.comment.state = t.state
           /\ (~StateDiffers(l, t) /\ TitleDiffers(l, t))
                => result.comment.text = "refreshed the title for task"

\* C3 witness: the line "- [ ] #1 B" and the closed task #1 titled A give
\* "- [x] #1 A" and the combined comment.
C3_Witness ==
    /\ reconcile.taskIsTruth
    /\ reconcile.returned = "result"
    /\ reconcile.taskLine = <<"-", " ", "[", " ", "]", " ", "#", "1", " ", "B">>
    /\ reconcile.taskIssue.state = "closed"
    /\ result.line = <<"-", " ", "[", "x", "]", " ", "#", "1", " ", "A">>
    /\ result.comment.text = "refreshed the title for task and marked it as"

\* C4 as claimed: in the Epic-driven direction the returned line is the input line,
\* also when the titles differ.
C4_EpicDirectionLineUnchanged ==
    (~reconcile.taskIsTruth /\ reconcile.returned = "result")
        => result.line = reconcile.taskLine

\* the line is written the way updateTask writes lines
IsCanonical(taskLine) ==
    LET match == taskExpression(taskLine)
    IN  /\ match.matched
        /\ match.closed \in {"x", " "}
        /\ taskLine = match.pre \o <<"-", " ", "[", match.closed, "]", " ", "#">>
                        \o numberToString(parseInt(match.number)) \o <<" ">> \o match.title

\* C4 amended: in the Epic-driven direction the returned line keeps the input line's
\* indent and closed flag and carries the task's number and the task's title; it is
\* the input line when the titles are equal and the line is in canonical form.
C4_EpicDirectionLineKeepsState ==
    LET l == reconcile.taskLine
        t == reconcile.taskIssue
        match == taskExpression(l)
    IN  (~reconcile.taskIsTruth /\ reconcile.returned = "result")
        => /\ result.line = match.pre
                \o <<"-", " ", "[", IF match.closed = "x" THEN "x" ELSE " ", "]", " ", "#">>
                \o numberToString(t.number) \o <<" ">> \o t.title
           /\ (~TitleDiffers(l, t) /\ IsCanonical(l)) => result.line = l
           /\ TitleDiffers(l, t) => result.line # l

\* C4 witness: a line whose state and title both differ from the task's was
\* reconciled in the Epic-driven direction: the status is kept, the title is not.
C4_Witness ==
    /\ ~reconcile.taskIsTruth
    /\ reconcile.returned = "result"
    /\ reconcile.taskLine = <<"-", " ", "[", "x", "]", " ", "#", "1", " ", "B">>
    /\ reconcile.taskIssue.state = "open"
    /\ result.line = <<"-", " ", "[", "x", "]", " ", "#", "1", " ", "A">>

\* the calls updateTask issued in its latest invocation
ReconcileCalls ==
    { k \in (reconcile.nCalls + 1)..Len(calls) : calls[k].site = "updateTask" }

\* C5: in the Epic-driven direction, when the line's closed flag differs from the
\* task's state, the task's state is set to the line's flag and a comment on the
\* task follows the successful update; when the state does not differ updateTask
\* issues no call; no update ever writes a title.
C5_EpicDirectionPushesStateOnly ==
    LET l == reconcile.taskLine
        t == reconcile.taskIssue
        flag == IF taskExpression(l).closed = "x" THEN "closed" ELSE "open"
        u == reconcile.nCalls + 1
    IN  /\ \A k \in 1..Len(calls) : "title" \notin calls[k].fields
        /\ (~reconcile.taskIsTruth /\ reconcile.returned # "" /\ ~StateDiffers(l, t))
            => ReconcileCalls = {}
        /\ (~reconcile.taskIsTruth /\ reconcile.returned # "" /\ StateDiffers(l, t))
            => /\ pc = "updateTaskState" <=> Len(calls) < u
               /\ Len(calls) >= u
                    => /\ calls[u].op = "update"
                       /\ calls[u].number = t.number
                       /\ calls[u].fields = {"state"}
                       /\ calls[u].state = flag
                       /\ calls[u].site = "updateTask"
               /\ (Len(calls) >= u /\ calls[u].ok)
                    => /\ pc = "commentTask" <=> Len(calls) = u
                       /\ pc = "commentTask" => issues[t.number].state = flag
                       /\ Len(calls) > u
                            => /\ calls[u + 1].op = "createComment"
                               /\ calls[u + 1].number = t.number
                               /\ calls[u + 1].site = "updateTask"
               /\ (Len(calls) >= u /\ ~calls[u].ok) => ReconcileCalls = {u}
               /\ reconcile.returned = "result"
                    => /\ ReconcileCalls = {u, u + 1}
                       /\ calls[u].ok /\ calls[u + 1].ok

\* C5 witness: the line of task #1 has status X, which is not x, and the task was
\* closed; the task was re-opened and the comment on the task followed.
C5_Witness ==
    /\ ~reconcile.taskIsTruth
    /\ reconcile.returned = "result"
    /\ taskExpression(reconcile.taskLine).closed = "X"
    /\ reconcile.taskIssue.number = 1
    /\ reconcile.taskIssue.state = "closed"
    /\ issues[1].state = "open"
    /\ Len(calls) = reconcile.nCalls + 2
    /\ calls[reconcile.nCalls + 1].state = "open"
    /\ Last(calls).op = "createComment"
    /\ Last(calls).number = 1

\* the issue is an Epic for the run: its title starts with the prefix
IsEpic(n) == n \in DOMAIN issues /\ startsWith(issues[n].title, epicPrefix)

TaskDriven == pc \notin {"idle"} /\ sourceIssue.number # 0 /\ ~EpicDriven

\* C6: a task-driven pass issues no update of a task: every update and comment
\* goes to an Epic, and an update carries a body or the closing of the Epic.
C6_TaskDrivenMutatesEpicsOnly ==
    TaskDriven
        => \A k \in 1..Len(calls) :
            /\ calls[k].site # "updateTask"
            /\ IsMutation(calls[k])
                => /\ IsEpic(calls[k].number)
                   /\ calls[k].number # sourceIssue.number
                   /\ calls[k].number \notin TaskNumbers
            /\ calls[k].op = "update"
                => \/ calls[k].fields = {"body"}
                   \/ /\ calls[k].fields = {"state"}
                      /\ calls[k].state = "closed"
                      /\ calls[k].site = "closeEpicIfComplete"

\* C6 witness: a task-driven pass has rewritten an Epic body while the task's line
\* in it disagreed with the task.
C6_Witness ==
    /\ TaskDriven
    /\ reconcile.taskIsTruth
    /\ reconcile.returned = "result"
    /\ StateDiffers(reconcile.taskLine, reconcile.taskIssue)
    /\ Len(calls) >= 2
    /\ Last(calls).op = "update"
    /\ Last(calls).fields = {"body"}
    /\ Last(calls).ok

\* C7: in a task-driven pass an Epic with nothing to do does not end the pass: a
\* pass in which no call failed ends only when the timeline is exhausted, so the
\* Epics that follow are reconciled.
C7_NothingToDoDoesNotEndPass ==
    (TaskDriven /\ pc = "done" /\ ~failed) => ret = "true"

\* C8: a failed Issue Store call is the last call of its pass, and it is reported.
C8_FailedCallEndsPass ==
    /\ \A k \in 1..(Len(calls) - 1) : calls[k].ok
    /\ (\E k \in 1..Len(calls) : ~calls[k].ok) => failed

\* C9: when the fetch of a line's task fails in an Epic-driven pass, the pass ends
\* there: the failure is reported, the fetch is the last call, no body update and
\* no close was issued, and updateEpic has returned false.
C9_FailedFetchAbortsPass ==
    \A k \in 1..Len(calls) :
        (calls[k].op = "get" /\ ~calls[k].ok)
            => /\ k = Len(calls)
               /\ failed
               /\ pc = "done"
               /\ ret = "false"
               /\ \A j \in 1..Len(calls) :
                    /\ calls[j].fields # {"body"}
                    /\ calls[j].site # "closeEpicIfComplete"
               /\ issues[epicIssue.number].body = epicIssue.body

\* C9 witness: the fetch for the second task line failed after the first line was
\* rewritten, and the stored body is still the old one.
C9_Witness ==
    /\ Len(calls) >= 2
    /\ Last(calls).op = "get"
    /\ ~Last(calls).ok
    /\ pc = "done"
    /\ i = 3
    /\ body # epicIssue.body
    /\ issues[epicIssue.number].body = epicIssue.body

\* the lines of the workload section: after the first heading that ends with the
\* marker, up to the first later heading that does not
IsMarkerHeading(l) == IsHeading(l) /\ endsWith(l, tasksMarker)

SectionTaskLines(lines) ==
    { k \in 1..Len(lines) :
        /\ ~IsHeading(lines[k])
        /\ \E s \in 1..(k - 1) :
            /\ IsMarkerHeading(lines[s])
            /\ \A h \in 1..(s - 1) : ~IsMarkerHeading(lines[h])
            /\ \A h \in (s + 1)..k : IsHeading(lines[h]) => IsMarkerHeading(lines[h])
        /\ taskExpression(lines[k]).matched }

IsComplete(lines) ==
    LET section == SectionTaskLines(lines)
    IN  /\ section # {}
        /\ \A k \in section : taskExpression(lines[k]).closed = "x"

\* the body handed to closeEpicIfComplete by the pass
CheckedBody == IF EpicDriven THEN body ELSE result.body

\* the pass stands after the point where it calls closeEpicIfComplete, and has not
\* turned to the next Epic that needs an update
AtCompletionCheck ==
    /\ calls # <<>>
    /\ pc # "commitFromTask"
    /\ Last(calls).ok
    /\ \/ Last(calls).site = "updateEpic" /\ Last(calls).fields = {"body"}
       \/ /\ Last(calls).site = "updateEpicFromTask"
          /\ \/ Last(calls).op = "createComment"
             \/ Last(calls).fields = {"body"} /\ result.comment = NoComment

\* C10: closeEpicIfComplete goes on to the completion comment and the close exactly
\* when the section has at least one task line and every task line has status x;
\* the comment and the close are issued for no other body.
C10_ClosesExactlyCompleteBodies ==
    /\ (AtCompletionCheck /\ Truthy(closeCompletedEpics))
        => (pc = "closeComment" <=> IsComplete(CheckedBody))
    /\ pc \in {"closeComment", "closeUpdate"} => IsComplete(CheckedBody)
    /\ (calls # <<>> /\ pc # "commitFromTask" /\ Last(calls).site = "closeEpicIfComplete")
        => IsComplete(CheckedBody)

\* C10 witness: the completion check ran on a section with two task lines of which
\* one is open, and the Epic is not being closed.
C10_Witness ==
    /\ AtCompletionCheck
    /\ Truthy(closeCompletedEpics)
    /\ Cardinality(SectionTaskLines(CheckedBody)) = 2
    /\ \E k \in SectionTaskLines(CheckedBody) : taskExpression(CheckedBody[k]).closed = "x"
    /\ ~IsComplete(CheckedBody)
    /\ pc = "done"

\* C11: with the close-completed-epics input supplied as "false", no pass issues
\* the completion comment or the close of an Epic.
C11_SuppliedFalseNeverCloses ==
    closeCompletedEpics = "false"
        => \A k \in 1..Len(calls) : calls[k].site # "closeEpicIfComplete"

\* C12: when epicPrefix or tasksMarker is empty and the payload carries an issue,
\* run reports the failure and returns without any Issue Store call.
C12_InvalidConfigIssuesNoCall ==
    (pc # "idle" /\ sourceIssue.number # 0 /\ (epicPrefix = <<>> \/ tasksMarker = <<>>))
        => /\ pc = "done"
           /\ failed
           /\ calls = <<>>
           /\ ret = "none"

\* C12 witness: a run for Epic #3 with an empty tasks marker has ended.
C12_Witness ==
    /\ pc = "done"
    /\ sourceIssue.number = 3
    /\ epicPrefix # <<>>
    /\ tasksMarker = <<>>
    /\ failed
    /\ calls = <<>>

\* no line of the body is a heading that ends with the marker
NoMarkerHeading(lines) == \A k \in 1..Len(lines) : ~IsMarkerHeading(lines[k])

\* C13: an Epic whose body has no heading ending with the marker has no checklist
\* line: an Epic-driven pass on it fetches no task, changes no task state, posts
\* no comment, writes back the lines as they were and does not close the Epic; a
\* Task-driven pass issues no call for it at all.
C13_NoMarkerHeadingNoChecklist ==
    /\ (pc # "idle" /\ sourceIssue.number # 0 /\ EpicDriven
            /\ ~configInvalid(epicPrefix, tasksMarker) /\ NoMarkerHeading(epicIssue.body))
        => /\ \A k \in 1..Len(calls) :
                /\ calls[k].op = "update"
                /\ calls[k].fields = {"body"}
                /\ calls[k].number = epicIssue.number
                /\ calls[k].body = epicIssue.body
           /\ body = epicIssue.body
           /\ issues[epicIssue.number].body = epicIssue.body
           /\ issues[epicIssue.number].state = epicIssue.state
    /\ (TaskDriven /\ timeline # <<>>)
        => \A n \in EpicNumbers :
              NoMarkerHeading(timeline[n].body)
                  => /\ \A k \in 1..Len(calls) : calls[k].number # n
                     /\ issues[n] = [title |-> timeline[n].title,
                                     state |-> timeline[n].state,
                                     body |-> timeline[n].body]

\* C13 witness: Epic #3 holds a closed task line under a heading that does not end
\* with the marker; the pass wrote the body back and, with closing enabled, ended
\* without closing the Epic.
C13_Witness ==
    /\ pc = "done"
    /\ ret = "true"
    /\ EpicDriven
    /\ closeCompletedEpics = "true"
    /\ epicIssue.body = <<OtherHeading, RenderLine(<<>>, "x", 2, TitleB)>>
    /\ Len(calls) = 1
    /\ Last(calls).ok
    /\ issues[3].state = "open"

\* the line updateTask writes when the task has the number and the title of the line
RoundTrip(l) ==
    LET match == taskExpression(l)
    IN  newLineFromEpic(match, [number |-> parseInt(match.number), title |-> match.title,
                                state |-> "", body |-> <<>>])

\* the line has the form <indent>- [<status-char>] #<number> <title>: it starts with
\* its indent, and a space follows the number
HasChecklistForm(l) ==
    LET match == taskExpression(l)
        p == Len(match.pre)
        e == p + 7 + Len(match.number)
    IN  /\ match.matched
        /\ SubSeq(l, 1, p) = match.pre
        /\ CoreAt(l, p + 1)
        /\ Len(l) > e
        /\ l[e + 1] = " "

\* the form, with status x or space, a number without leading zeros, and one space
\* between the number and a title that does not begin with a space
IsWellFormed(l) ==
    LET match == taskExpression(l)
    IN  /\ HasChecklistForm(l)
        /\ match.closed \in {"x", " "}
        /\ (Len(match.number) > 1 => match.number[1] # "0")
        /\ Len(l) = Len(match.pre) + 7 + Len(match.number) + 1 + Len(match.title)

\* C14 as stated: every line of the form <indent>- [<status-char>] #<number> <title>
\* that updateTask was given is rendered back to itself from its parsed fields.
C14_RoundTripOfEveryLine ==
    (reconcile.returned # "" /\ HasChecklistForm(reconcile.taskLine))
        => RoundTrip(reconcile.taskLine) = reconcile.taskLine

\* C14 amended: a line of the form that updateTask was given is rendered back to
\* itself from its parsed fields exactly when its status is x or a space, its
\* number has no leading zeros and one space stands before a title that does not
\* begin with a space.
C14_RoundTripOfWellFormedLines ==
    (reconcile.returned # "" /\ HasChecklistForm(reconcile.taskLine))
        => (RoundTrip(reconcile.taskLine) = reconcile.taskLine
                <=> IsWellFormed(reconcile.taskLine))

\* C14 witness: the indented line "  - [x] #1 A" was reconciled with the open task
\* #1 of title A in the Epic-driven direction, and the line came back as it was.
C14_Witness ==
    /\ ~reconcile.taskIsTruth
    /\ reconcile.returned = "result"
    /\ reconcile.taskLine = <<" ", " ", "-", " ", "[", "x", "]", " ", "#", "1", " ", "A">>
    /\ IsWellFormed(reconcile.taskLine)
    /\ result.line = reconcile.taskLine

\* the body the pass read for Epic n: the trigger's payload in an Epic-driven pass,
\* the timeline entry's issue in a Task-driven pass
InputBody(n) == IF EpicDriven THEN epicIssue.body ELSE timeline[n].body

\* lines has the length of input, and differs from it on task lines of the
\* section only
SameOutsideTaskLines(lines, input) ==
    \/ lines = input
    \/ /\ Len(lines) = Len(input)
       /\ LET section == SectionTaskLines(input)
          IN  \A j \in 1..Len(input) : lines[j] = input[j] \/ j \in section

\* C15: every body a pass persists has as many lines as the body it read, and
\* every line that is not a task line of the workload section is the input's line;
\* the same holds for the lines of an Epic-driven pass while it scans.
C15_OnlySectionTaskLinesChange ==
    /\ \A k \in 1..Len(calls) :
          calls[k].fields = {"body"}
              => SameOutsideTaskLines(calls[k].body, InputBody(calls[k].number))
    /\ (pc \notin {"idle"} /\ sourceIssue.number # 0 /\ EpicDriven
            /\ ~configInvalid(epicPrefix, tasksMarker))
        => SameOutsideTaskLines(body, epicIssue.body)

\* C15 witness: a Task-driven pass persisted the body of Epic #3, in which the task
\* line changed and the marker heading and the blank line of the section did not.
C15_Witness ==
    /\ TaskDriven
    /\ calls # <<>>
    /\ Last(calls).fields = {"body"}
    /\ Last(calls).ok
    /\ Last(calls).number = 3
    /\ timeline[3].body = <<MarkerHeading, BlankLine, RenderLine(<<>>, " ", 1, TitleB)>>
    /\ Last(calls).body = <<MarkerHeading, BlankLine, RenderLine(<<>>, " ", 1, TitleA)>>

\* every task listed in the section of lines is closed in the Issue Store
ListedTasksClosed(lines) ==
    \A j \in SectionTaskLines(lines) :
        LET n == parseInt(taskExpression(lines[j]).number)
        IN  n \in DOMAIN issues => issues[n].state = "closed"

\* C16: when a pass is about to issue the close of an Epic, every task listed in
\* the Epic's workload section is closed in the Issue Store.
C16_NoCloseWhileTaskOpen ==
    pc = "closeUpdate" => ListedTasksClosed(CheckedBody)

\* the state C16 fails in after one failed call: the Epic-driven pass could not
\* close task #2, went on, and is about to close the Epic
C16_AfterFailedTaskUpdate ==
    ~ /\ pc = "closeUpdate"
      /\ EpicDriven
      /\ epicIssue.body = <<MarkerHeading, RenderLine(<<>>, "x", 2, TitleB)>>
      /\ issues[2].state = "open"
      /\ \E k \in 1..Len(calls) : calls[k].site = "updateTask" /\ ~calls[k].ok

IsBodyUpdate(call, n) == call.op = "update" /\ call.fields = {"body"} /\ call.number = n

IsCompletionComment(call) == call.site = "closeEpicIfComplete" /\ call.op = "createComment"

IsClose(call) == call.site = "closeEpicIfComplete" /\ call.op = "update"

\* C17: the completion comment of an Epic comes right after the successful update
\* of its body (Epic-driven), or right after the successful comment on the Epic
\* that follows the successful update of its body (Task-driven); a failed body
\* update is the last call of the pass; the close comes right after the posted
\* completion comment, and never after a failed one.
C17_CompletionCheckAfterPersist ==
    \A k \in 1..Len(calls) :
        LET n == calls[k].number
        IN  /\ (IsCompletionComment(calls[k]) /\ EpicDriven)
                => /\ k > 1
                   /\ IsBodyUpdate(calls[k - 1], n)
                   /\ calls[k - 1].ok
            /\ (IsCompletionComment(calls[k]) /\ ~EpicDriven)
                => /\ k > 2
                   /\ calls[k - 1].op = "createComment"
                   /\ calls[k - 1].site = "updateEpicFromTask"
                   /\ calls[k - 1].number = n
                   /\ calls[k - 1].ok
                   /\ IsBodyUpdate(calls[k - 2], n)
                   /\ calls[k - 2].ok
            /\ (calls[k].fields = {"body"} /\ ~calls[k].ok)
                => /\ k = Len(calls)
                   /\ pc = "done"
                   /\ ret = "false"
            /\ IsClose(calls[k])
                => /\ k > 1
                   /\ IsCompletionComment(calls[k - 1])
                   /\ calls[k - 1].number = n
                   /\ calls[k - 1].ok
            /\ (IsCompletionComment(calls[k]) /\ ~calls[k].ok)
                => /\ pc # "closeUpdate" \/ k < Len(calls)
                   /\ k < Len(calls) => ~IsClose(calls[k + 1])

\* C17 witness: in a Task-driven pass the body of Epic #4 was persisted and the
\* comment on it posted, the completion comment failed, and the Epic stays open.
C17_Witness ==
    /\ TaskDriven
    /\ Len(calls) = 4
    /\ IsBodyUpdate(calls[2], 4) /\ calls[2].ok
    /\ calls[3].site = "updateEpicFromTask" /\ calls[3].ok
    /\ IsCompletionComment(calls[4]) /\ ~calls[4].ok
    /\ pc = "done"
    /\ issues[4].state = "open"

\* the entry is a cross-reference whose source is an issue with an Epic title
IsEpicEntry(ev) ==
    /\ ev.event = "cross-referenced"
    /\ ev.type = "issue"
    /\ ev.issue \in DOMAIN issues
    /\ startsWith(issues[ev.issue].title, epicPrefix)

\* C18: in a Task-driven pass, taking a timeline entry that is not a
\* cross-reference, whose source is not an issue, or whose source's title does not
\* start with epicPrefix issues no call and changes no issue; every update, comment
\* and close of the pass is issued while the entry at hand is an Epic's
\* cross-reference, and goes to that Epic.
C18_OnlyEpicEntriesAreMutated ==
    /\ [](TaskDriven
            => /\ pc \in {"commitFromTask", "commentFromTask", "closeComment", "closeUpdate"}
                    => IsEpicEntry(event) /\ epicIssue.number = event.issue
               /\ \A k \in 1..Len(calls) :
                    IsMutation(calls[k])
                        => /\ IsEpic(calls[k].number)
                           /\ calls[k].number # sourceIssue.number)
    /\ [][(pc = "event" /\ event' # event /\ ~IsEpicEntry(event'))
            => /\ calls' = calls
               /\ issues' = issues
               /\ pc' = "event"]_vars

\* C18 witness: after Epic #4 was updated the pass took a cross-reference whose
\* source is not an issue and carries Epic #3; Epic #3 was not touched.
C18_Witness ==
    /\ TaskDriven
    /\ pc = "event"
    /\ event = [event |-> "cross-referenced", type |-> "commit", issue |-> 3]
    /\ \E k \in 1..Len(calls) : IsBodyUpdate(calls[k], 4) /\ calls[k].ok
    /\ \A k \in 1..Len(calls) : calls[k].number # 3
    /\ issues[3] = [title |-> timeline[3].title, state |-> timeline[3].state,
                    body |-> timeline[3].body]

\* the number on task line j of lines
LineNumber(lines, j) == parseInt(taskExpression(lines[j]).number)

\* an Epic-driven pass has ended, returned true, and no call of it failed
CleanEpicPass ==
    /\ pc = "done"
    /\ sourceIssue.number # 0
    /\ ~configInvalid(epicPrefix, tasksMarker)
    /\ EpicDriven
    /\ ret = "true"
    /\ ~failed

\* C19: after an Epic-driven pass without a failed call, a task whose number is on
\* exactly one task line of the section is closed in the Issue Store exactly when
\* that line of the persisted body is marked x, and the line carries its title.
C19_CleanEpicPassLeavesTasksInSync ==
    CleanEpicPass
        => LET persisted == issues[epicIssue.number].body
               section == SectionTaskLines(persisted)
           IN  /\ persisted = body
               /\ \A j \in section :
                    LET n == LineNumber(persisted, j)
                        match == taskExpression(persisted[j])
                    IN  (n \in DOMAIN issues
                            /\ \A h \in section \ {j} : LineNumber(persisted, h) # n)
                        => /\ (match.closed = "x") <=> (issues[n].state = "closed")
                           /\ match.title = issues[n].title

\* C19 witness: the section listed task #1 as open and task #2 as closed while
\* the store held the opposite; the pass re-opened #1, closed #2 and refreshed the
\* title of #1.
C19_Witness ==
    /\ CleanEpicPass
    /\ epicIssue.body = <<MarkerHeading, RenderLine(<<>>, " ", 1, TitleB),
                          RenderLine(<<>>, "x", 2, TitleB)>>
    /\ issues[3].body = <<MarkerHeading, RenderLine(<<>>, " ", 1, TitleA),
                          RenderLine(<<>>, "x", 2, TitleB)>>
    /\ issues[1].state = "open"
    /\ issues[2].state = "closed"
    /\ \E k \in 1..Len(calls) : calls[k].site = "updateTask" /\ calls[k].number = 1
    /\ \E k \in 1..Len(calls) : calls[k].site = "updateTask" /\ calls[k].number = 2

\* an Epic-driven pass is under way or has ended
InEpicPass ==
    /\ pc # "idle"
    /\ sourceIssue.number # 0
    /\ ~configInvalid(epicPrefix, tasksMarker)
    /\ EpicDriven

\* the calls of the log that update the body of an issue
BodyUpdates == { k \in 1..Len(calls) : calls[k].op = "update" /\ calls[k].fields = {"body"} }

\* the task fetches of the log before call k
FetchesBefore(k) == { j \in 1..(k - 1) : calls[j].op = "get" }

\* C20: an Epic-driven pass updates the Epic body at most once, after it has
\* fetched the task of every task line of the section, and with the lines it has
\* built; when a task fetch or a comment on the Epic fails the pass ends with no
\* body update, and the task states set before stay as they were set.
C20_BodyWrittenOnceAtTheEnd ==
    InEpicPass
        => /\ Cardinality(BodyUpdates) <= 1
           /\ \A k \in BodyUpdates :
                /\ calls[k].number = epicIssue.number
                /\ calls[k].body = body
                /\ Cardinality(FetchesBefore(k)) = Cardinality(SectionTaskLines(epicIssue.body))
                /\ \A j \in (k + 1)..Len(calls) : calls[j].site = "closeEpicIfComplete"
           /\ \A k \in 1..Len(calls) :
                (~calls[k].ok /\ calls[k].site = "updateEpic"
                    /\ calls[k].op \in {"get", "createComment"})
                    => /\ k = Len(calls)
                       /\ pc = "done"
                       /\ ret = "false"
                       /\ BodyUpdates = {}
                       /\ issues[epicIssue.number].body = epicIssue.body
                       /\ \A j \in 1..(k - 1) :
                            (calls[j].site = "updateTask" /\ calls[j].op = "update"
                                /\ calls[j].ok)
                                => issues[calls[j].number].state = calls[j].state

\* C20 witness: the pass re-opened task #1 and commented on it, the comment on the
\* Epic about the line failed, and the pass ended without a body update.
C20_Witness ==
    /\ InEpicPass
    /\ pc = "done"
    /\ Last(calls).op = "createComment"
    /\ Last(calls).site = "updateEpic"
    /\ ~Last(calls).ok
    /\ taskIssue.number = 1
    /\ taskIssue.state = "closed"
    /\ issues[1].state = "open"
    /\ Len(epicIssue.body) = 3
    /\ BodyUpdates = {}

\* the task fetches of the log
Fetches == { k \in 1..Len(calls) : calls[k].op = "get" }

\* the line numbers of S that stand before line k
Before(S, k) == { j \in S : j < k }

\* the task lines of the section of lines that carry the number of task
LinesOfTask(lines, task) ==
    { j \in SectionTaskLines(lines) : LineNumber(lines, j) = task.number }

\* the first of a non-empty set of line numbers
First(S) == CHOOSE j \in S : \A h \in S : j <= h

\* C21: the three scans work on one and the same section, which starts after the
\* first heading ending with the marker, runs over further such headings and ends
\* at the first heading that does not end with it.  updateEpic fetches a task for
\* exactly the task lines of that section, in order; updateTaskInEpic hands
\* updateTask the first task line of that section with the task's number, and
\* none if the section has none; closeEpicIfComplete goes on to close exactly when
\* that section has a task line and all its task lines are marked x.  The
\* timeline and the task stay the same all through a task-driven pass, so its
\* part is stated where the timeline has just been listed; the body an
\* Epic-driven pass hands to closeEpicIfComplete is the one it commits.
C21_ScansSelectTheSameSection ==
    /\ (InEpicPass /\ pc \in {"scan", "get", "commit"})
        => LET section == SectionTaskLines(epicIssue.body)
           IN  /\ pc \in {"scan", "get"}
                    => Cardinality(Fetches) = Cardinality(Before(section, i))
               /\ pc = "get" => i \in section
               /\ pc = "scan" => \A j \in section : j < i \/ i <= Len(body)
               /\ pc = "commit" => Cardinality(Fetches) = Cardinality(section)
    /\ (TaskDriven /\ pc = "event" /\ event = NoEvent)
        => \A n \in EpicNumbers :
              LET lines == timeline[n].body
                  r == updateTaskInEpic(lines, sourceIssue)
                  mine == LinesOfTask(lines, sourceIssue)
              IN  /\ r.called <=> mine # {}
                  /\ r.called => r.taskLine = lines[First(mine)]
                  /\ ~r.isNull
                        => \A j \in 1..Len(lines) : j # First(mine) => r.body[j] = lines[j]
                  /\ epicComplete(lines) <=> IsComplete(lines)
    /\ (InEpicPass /\ pc = "commit") => (epicComplete(body) <=> IsComplete(body))

\* C21 witness: the body of Epic #3 has a second heading ending with the marker
\* inside its section; the Epic-driven scan went past it and has selected the
\* task line after it.
C21_Witness ==
    /\ InEpicPass
    /\ epicIssue.body = <<MarkerHeading, MarkerHeading, RenderLine(<<>>, "x", 2, TitleB)>>
    /\ pc = "get"
    /\ i = 3

====
